---- MODULE Spec2Model ----
\* Dual-tier creative memory (app/memory_manager.py) and the two front-ends
\* that drive it (app/main.py execute, app/app.py generate_creative_asset).
\*
\* Texts (prompts, documents) are sequences of tokens, so that an f-string is
\* a concatenation of its pieces.
\* Python's None is a typed sentinel: NoneId for an id, NoneDist for a
\* distance, NoneText for a text, NoneMeta for a metadata dict, NoneMatch for
\* a result dict.
EXTENDS Integers, Sequences, FiniteSets, TLC

\* ---------------------------------------------------------------- bounds
MaxSaves == 2      \* creation ids handed out by uuid4 in one run
MaxDist == 2       \* distances reported by the backend lie in 0..MaxDist
MaxN == 2          \* n_results passed to a search lies in 1..MaxN
MaxThreads == 2    \* concurrent callers of one manager
MaxPool == 2       \* length of a result pool handed to the selection

\* ------------------------------------------------------------- sentinels
NoneId == 0
NoneDist == -1
NoneText == <<"<None>">>
NoneMeta == [none |-> TRUE]
NoneMatch == [none |-> TRUE]

\* ------------------------------------------------------------ input sets
UserPrompts == {<<"a cat">>, <<"make it orange">>}
ExpandedPrompts == {<<"a fluffy orange cat">>}
\* datetime.now().isoformat() read by the n-th save_creation: a clock that
\* moves on between saves.
Clock == <<"t1", "t2", "t3", "t4">>
Now(n) == << Clock[n] >>

\* python: str(x) inside an f-string; None prints as the word None
Str(text) == IF text = NoneText THEN <<"None">> ELSE text

\* python: min(a, b)
Min(a, b) == IF a < b THEN a ELSE b

\* ------------------------------------------------- the backend collection
\* An add that recreates the collection around the new row.
CollectionAdd_recreate(coll, id, document, metadata) ==
    {[id |-> id, document |-> document, metadata |-> metadata]}

\* A chroma collection is a set of rows [id, document, metadata].
\* collection.add(documents=[d], metadatas=[m], ids=[i]) that does not raise.
CollectionAdd(coll, id, document, metadata) ==
    coll \cup {[id |-> id, document |-> document, metadata |-> metadata]}

\* The ways a backend hit can come back: well formed, or with a field the
\* backend did not deliver.
HitKinds == {"ok", "no_document", "no_metadata", "no_user_prompt"}

HitId(row, kind) == row.id
HitDocument(row, kind) == IF kind = "no_document" THEN NoneText ELSE row.document
HitMetadata(row, kind) ==
    CASE kind = "no_metadata" -> NoneMeta
      [] kind = "no_user_prompt" -> [timestamp |-> row.metadata.timestamp]
      [] OTHER -> row.metadata

\* collection.query(query_texts=[q], n_results=n, include=[...]) that does not
\* raise: the n nearest rows, nearest first, as chroma's column-wise dict
\* (one inner list per query text).  The embedding and so the distances are
\* the provider's; any ascending distances may come back.  At most one hit
\* of a query comes back malformed.
CollectionQuery(coll, n) ==
    LET k == Min(n, Cardinality(coll))
        KindsOf(bad, kind) == [i \in 1..k |-> IF i = bad THEN kind ELSE "ok"]
    IN { [ids |-> << [i \in 1..k |-> HitId(t[1][i], KindsOf(t[3], t[4])[i])] >>,
          documents |-> << [i \in 1..k |-> HitDocument(t[1][i], KindsOf(t[3], t[4])[i])] >>,
          metadatas |-> << [i \in 1..k |-> HitMetadata(t[1][i], KindsOf(t[3], t[4])[i])] >>,
          distances |-> << t[2] >>] :
           t \in { u \in [1..k -> coll] \X [1..k -> 0..MaxDist] \X (0..k) \X HitKinds :
                     /\ \A i, j \in 1..k : i # j => u[1][i] # u[1][j]
                     /\ \A i, j \in 1..k : i < j => u[2][i] <= u[2][j]
                     /\ (u[3] = 0) <=> (u[4] = "ok") } }

\* A backend call that raised.
Fault == [fault |-> TRUE]

\* ------------------------------------------------------- MemoryManager
\* python: d.get(key) on a metadata dict
MetaGet(metadata, key) ==
    IF key \in DOMAIN metadata THEN metadata[key] ELSE NoneText

\* save_creation with the short-term add issued whatever the long-term add did.
save_creation_short_anyway(long, short, creation_id, user_prompt, expanded_prompt, now, long_fault, short_fault) ==
    LET metadata == [user_prompt |-> user_prompt, timestamp |-> now]
        long2 == IF long_fault THEN long
                 ELSE CollectionAdd(long, creation_id, expanded_prompt, metadata)
        short2 == IF short_fault THEN short
                  ELSE CollectionAdd(short, creation_id, expanded_prompt, metadata)
    IN [long |-> long2, short |-> short2,
        ret |-> IF long_fault THEN NoneId ELSE creation_id, raised |-> FALSE,
        long_adds |-> 1, short_adds |-> 1,
        logged |-> (IF long_fault THEN {"error_long_term_save"} ELSE {"saved_long_term"})
                   \cup (IF short_fault THEN {"error_short_term_save"} ELSE {"saved_short_term"})]

\* save_creation that gives up (returns None) when the short-term add fails.
save_creation_none_on_partial(long, short, creation_id, user_prompt, expanded_prompt, now, long_fault, short_fault) ==
    LET metadata == [user_prompt |-> user_prompt, timestamp |-> now]
        long2 == CollectionAdd(long, creation_id, expanded_prompt, metadata)
        short2 == CollectionAdd(short, creation_id, expanded_prompt, metadata)
    IN IF long_fault
         THEN [long |-> long, short |-> short, ret |-> NoneId, raised |-> FALSE,
               long_adds |-> 1, short_adds |-> 0,
               logged |-> {"error_long_term_save"}]
         ELSE IF short_fault
           THEN [long |-> long2, short |-> short, ret |-> NoneId,
                 raised |-> FALSE, long_adds |-> 1, short_adds |-> 1,
                 logged |-> {"saved_long_term", "error_short_term_save"}]
           ELSE [long |-> long2, short |-> short2, ret |-> creation_id,
                 raised |-> FALSE, long_adds |-> 1, short_adds |-> 1,
                 logged |-> {"saved_long_term", "saved_short_term"}]

\* save_creation that goes on after a failed long-term add instead of returning.
save_creation_no_abort(long, short, creation_id, user_prompt, expanded_prompt, now, long_fault, short_fault) ==
    LET metadata == [user_prompt |-> user_prompt, timestamp |-> now]
        long2 == IF long_fault THEN long
                 ELSE CollectionAdd(long, creation_id, expanded_prompt, metadata)
        short2 == IF short_fault THEN short
                  ELSE CollectionAdd(short, creation_id, expanded_prompt, metadata)
    IN [long |-> long2, short |-> short2, ret |-> creation_id, raised |-> FALSE,
        long_adds |-> 1, short_adds |-> 1,
        logged |-> (IF long_fault THEN {"error_long_term_save"} ELSE {"saved_long_term"})
                   \cup (IF short_fault THEN {"error_short_term_save"} ELSE {"saved_short_term"})]

\* A save that issues the long-term add a second time when the first raised
\* (the second attempt goes through).
save_creation_retry_long(long, short, creation_id, user_prompt, expanded_prompt, now, long_fault, short_fault) ==
    LET metadata == [user_prompt |-> user_prompt, timestamp |-> now]
        long2 == CollectionAdd(long, creation_id, expanded_prompt, metadata)
        short2 == CollectionAdd(short, creation_id, expanded_prompt, metadata)
    IN [long |-> long2, short |-> IF short_fault THEN short ELSE short2,
        ret |-> creation_id, raised |-> FALSE,
        long_adds |-> IF long_fault THEN 2 ELSE 1, short_adds |-> 1,
        logged |-> {"saved_long_term"}
                   \cup (IF short_fault THEN {"error_short_term_save"} ELSE {"saved_short_term"})]

\* save_creation(user_prompt, expanded_prompt), on tiers long and short, with
\* the uuid4 and the clock value it draws and the outcome of each add it may
\* issue.  ret is the returned id or NoneId; long_adds and short_adds count
\* the add calls issued; logged is what it logs.
save_creation(long, short, creation_id, user_prompt, expanded_prompt, now, long_fault, short_fault) ==
    LET metadata == [user_prompt |-> user_prompt, timestamp |-> now]
        long2 == CollectionAdd(long, creation_id, expanded_prompt, metadata)
        short2 == CollectionAdd(short, creation_id, expanded_prompt, metadata)
    IN IF long_fault
         THEN [long |-> long, short |-> short, ret |-> NoneId, raised |-> FALSE,
               long_adds |-> 1, short_adds |-> 0,
               logged |-> {"error_long_term_save"}]
         ELSE IF short_fault
           THEN [long |-> long2, short |-> short, ret |-> creation_id,
                 raised |-> FALSE, long_adds |-> 1, short_adds |-> 1,
                 logged |-> {"saved_long_term", "error_short_term_save"}]
           ELSE [long |-> long2, short |-> short2, ret |-> creation_id,
                 raised |-> FALSE, long_adds |-> 1, short_adds |-> 1,
                 logged |-> {"saved_long_term", "saved_short_term"}]

\* One formatted row of _format_chroma_results.
FormatHit(results, i) ==
    [id |-> results.ids[1][i],
     user_prompt |-> MetaGet(results.metadatas[1][i], "user_prompt"),
     expanded_prompt |-> results.documents[1][i],
     timestamp |-> MetaGet(results.metadatas[1][i], "timestamp"),
     similarity_distance |-> results.distances[1][i]]

\* _format_chroma_results(results): metadata.get on a None metadata raises
\* AttributeError, which ends the whole formatting.
format_chroma_results(results) ==
    IF results.ids # <<>> /\ results.ids[1] # <<>>
      THEN IF \E i \in 1..Len(results.ids[1]) : results.metadatas[1][i] = NoneMeta
             THEN [raised |-> TRUE, value |-> <<>>]
             ELSE [raised |-> FALSE,
                   value |-> [i \in 1..Len(results.ids[1]) |-> FormatHit(results, i)]]
      ELSE [raised |-> FALSE, value |-> <<>>]

\* A search whose try block covers the query only: a formatting error escapes.
SearchBody_format_outside_try(backend, tier) ==
    IF backend = Fault
      THEN [raised |-> FALSE, value |-> <<>>, queries |-> 1,
            logged |-> {"error_searching_" \o tier}]
      ELSE LET formatted == format_chroma_results(backend)
           IN IF formatted.raised
                THEN [raised |-> TRUE, value |-> <<>>, queries |-> 1, logged |-> {}]
                ELSE [raised |-> FALSE, value |-> formatted.value, queries |-> 1,
                      logged |-> {"found_in_" \o tier}]

\* The body shared by the two searches: one query, formatted, with every
\* exception caught and turned into an empty list.  backend is what the
\* collection's query does: Fault, or the raw results it returns.
SearchBody(backend, tier) ==
    IF backend = Fault
      THEN [raised |-> FALSE, value |-> <<>>, queries |-> 1,
            logged |-> {"error_searching_" \o tier}]
      ELSE LET formatted == format_chroma_results(backend)
           IN IF formatted.raised
                THEN [raised |-> FALSE, value |-> <<>>, queries |-> 1,
                      logged |-> {"error_searching_" \o tier}]
                ELSE [raised |-> FALSE, value |-> formatted.value, queries |-> 1,
                      logged |-> {"found_in_" \o tier}]

search_short_term_memory(backend) == SearchBody(backend, "short_term")

search_long_term_memory(backend) == SearchBody(backend, "long_term")

\* compute_score that scores a missing distance as 0 instead of skipping it.
compute_score_default_zero(result) ==
    IF result.similarity_distance # NoneDist
      THEN result.similarity_distance
      ELSE 0

\* compute_score(result) inside select_best_memory_match
compute_score(result) ==
    IF result.similarity_distance # NoneDist
      THEN result.similarity_distance
      ELSE NoneDist

\* A pool made of the short-term results alone.
Candidates_short_only(short_term_results, long_term_results) ==
    [i \in 1..Len(short_term_results) |->
        [source |-> "short-term", index |-> i, result |-> short_term_results[i]]]

\* The pool in iteration order, each candidate with the pool it is from and
\* its place there.
Candidates(short_term_results, long_term_results) ==
    [i \in 1..Len(short_term_results) |->
        [source |-> "short-term", index |-> i, result |-> short_term_results[i]]]
    \o
    [i \in 1..Len(long_term_results) |->
        [source |-> "long-term", index |-> i, result |-> long_term_results[i]]]

\* The comparison with the sense reversed: the farthest candidate wins.
Replaces_greater(score, best_score) ==
    score # NoneDist /\ (best_score = NoneDist \/ score > best_score)

\* The comparison made non-strict: a later tie replaces the current best.
Replaces_or_equal(score, best_score) ==
    score # NoneDist /\ (best_score = NoneDist \/ score <= best_score)

\* `score is not None and (best_score is None or score < best_score)`
Replaces(score, best_score) ==
    score # NoneDist /\ (best_score = NoneDist \/ score < best_score)

NoBest ==
    [best_match |-> NoneMatch, best_score |-> NoneDist, source |-> "none", index |-> 0]

\* The loop of select_best_memory_match from candidate i on.
RECURSIVE SelectLoop(_, _, _)
SelectLoop(cands, i, best) ==
    IF i > Len(cands) THEN best
    ELSE LET score == compute_score(cands[i].result)
         IN IF Replaces(score, best.best_score)
              THEN SelectLoop(cands, i + 1,
                     [best_match |-> cands[i].result, best_score |-> score,
                      source |-> cands[i].source, index |-> cands[i].index])
              ELSE SelectLoop(cands, i + 1, best)

\* select_best_memory_match: (best_match, best_score), and which object of
\* which pool best_match is.
select_best_memory_match(short_term_results, long_term_results) ==
    SelectLoop(Candidates(short_term_results, long_term_results), 1, NoBest)

\* ------------------------------------------------------------------ state
VARIABLES
    long_term_collection,    \* rows of the persistent collection
    short_term_collection,   \* rows of the in-memory collection
    next_uuid,               \* ids uuid4 has handed out so far
    call,                    \* the manager call that returned last
    short_term_results,      \* the caller's short_term_results
    long_term_results,       \* the caller's long_term_results
    selection,               \* what the caller got from select_best_memory_match
    frontend,                \* "main" (main.py) or "app" (app.py), or "none"
    memory_manager,          \* "ready", or "unset"/"failed" when it is None
    req,                     \* the request the front-end is handling
    process,                 \* what the running process has done so far
    threads                  \* the calls in progress of concurrent callers

vars == <<long_term_collection, short_term_collection, next_uuid, call,
          short_term_results, long_term_results, selection, frontend,
          memory_manager, req, process, threads>>

NoCall ==
    [op |-> "none", creation_id |-> NoneId, ret |-> NoneId, results |-> <<>>,
     raised |-> FALSE, long_fault |-> FALSE, short_fault |-> FALSE,
     long_adds |-> 0, short_adds |-> 0, nonempty |-> FALSE,
     query_fault |-> FALSE, format_fault |-> FALSE, queries |-> 0,
     logged |-> {}, wellformed |-> <<>>, init_fault |-> "none"]

NoReq == [pc |-> "idle"]

\* A process at its start: it has added no id to either tier and no
\* construction of the manager has failed in it.
NewProcess == [added_long |-> {}, added_short |-> {}, init_failed |-> FALSE]

\* The process record after a save that turned the tiers into long2, short2.
Added(long2, short2) ==
    [process EXCEPT
       !.added_long = @ \cup {row.id : row \in long2 \ long_term_collection},
       !.added_short = @ \cup {row.id : row \in short2 \ short_term_collection}]

NoThreads == <<>>

\* What a collection's query may do: raise, or return raw results.
QueryOutcomes(coll, n) == {Fault} \cup CollectionQuery(coll, n)

\* The call record of save_creation with outcome `out`.
SaveCall(creation_id, long_fault, short_fault, out) ==
    [NoCall EXCEPT !.op = "save_creation", !.creation_id = creation_id,
                   !.ret = out.ret, !.raised = out.raised,
                   !.long_fault = long_fault,
                   !.short_fault = (out.short_adds > 0 /\ short_fault),
                   !.long_adds = out.long_adds, !.short_adds = out.short_adds,
                   !.logged = out.logged]

\* The ids, in order, of the hits of raw results that carry an id, a document
\* text and a metadata dict.
WellFormedIds(results) ==
    LET WellFormed(i) == /\ results.ids[1][i] # NoneId
                         /\ results.documents[1][i] # NoneText
                         /\ results.metadatas[1][i] # NoneMeta
        kept == SelectSeq([i \in 1..Len(results.ids[1]) |-> i], WellFormed)
    IN [j \in 1..Len(kept) |-> results.ids[1][kept[j]]]

\* The call record of a search on a tier `coll` that met `backend`.
SearchCall(op, coll, backend, out) ==
    [NoCall EXCEPT !.op = op, !.raised = out.raised, !.results = out.value,
                   !.nonempty = (coll # {}),
                   !.query_fault = (backend = Fault),
                   !.format_fault = (backend # Fault /\ format_chroma_results(backend).raised),
                   !.queries = out.queries, !.logged = out.logged,
                   !.wellformed = (IF backend = Fault THEN <<>> ELSE WellFormedIds(backend))]

\* ------------------------------------------- the manager, called directly
Init ==
    /\ long_term_collection = {}
    /\ short_term_collection = {}
    /\ next_uuid = 0
    /\ call = NoCall
    /\ short_term_results = <<>>
    /\ long_term_results = <<>>
    /\ selection = NoBest
    /\ frontend = "none"
    /\ memory_manager = "ready"
    /\ req = NoReq
    /\ process = NewProcess
    /\ threads = NoThreads

\* The caller makes one call at a time: call holds what the last call
\* returned until the caller takes it.
SaveCreation ==
    /\ call = NoCall
    /\ next_uuid < MaxSaves
    /\ \E user_prompt \in UserPrompts, expanded_prompt \in ExpandedPrompts,
          long_fault \in BOOLEAN, short_fault \in BOOLEAN :
         LET creation_id == next_uuid + 1
             out == save_creation(long_term_collection, short_term_collection,
                                  creation_id, user_prompt, expanded_prompt,
                                  Now(creation_id), long_fault, short_fault)
         IN /\ next_uuid' = creation_id
            /\ long_term_collection' = out.long
            /\ short_term_collection' = out.short
            /\ call' = SaveCall(creation_id, long_fault, short_fault, out)
            /\ process' = Added(out.long, out.short)
    /\ UNCHANGED <<threads, short_term_results, long_term_results, selection,
                   frontend, memory_manager, req>>

SearchShortTerm ==
    /\ call = NoCall
    /\ \E n_results \in 1..MaxN :
         \E backend \in QueryOutcomes(short_term_collection, n_results) :
           call' = SearchCall("search_short_term_memory", short_term_collection,
                              backend, search_short_term_memory(backend))
    /\ UNCHANGED <<threads, process,
                   long_term_collection, short_term_collection, next_uuid,
                   short_term_results, long_term_results, selection, frontend,
                   memory_manager, req>>

SearchLongTerm ==
    /\ call = NoCall
    /\ \E n_results \in 1..MaxN :
         \E backend \in QueryOutcomes(long_term_collection, n_results) :
           call' = SearchCall("search_long_term_memory", long_term_collection,
                              backend, search_long_term_memory(backend))
    /\ UNCHANGED <<threads, process,
                   long_term_collection, short_term_collection, next_uuid,
                   short_term_results, long_term_results, selection, frontend,
                   memory_manager, req>>

\* The call has returned to the caller.
Return ==
    /\ call # NoCall
    /\ call' = NoCall
    /\ UNCHANGED <<threads, process,
                   long_term_collection, short_term_collection, next_uuid,
                   short_term_results, long_term_results, selection, frontend,
                   memory_manager, req>>

Next ==
    \/ SaveCreation
    \/ SearchShortTerm
    \/ SearchLongTerm
    \/ Return

Spec == Init /\ [][Next]_vars

\* ------------------------------- select_best_memory_match on given pools
\* A formatted result as a search returns it: the i-th record of its pool,
\* at distance d (NoneDist when the distance is missing).
PoolResult(i, d) ==
    [id |-> i, user_prompt |-> <<"a cat">>,
     expanded_prompt |-> <<"a fluffy orange cat">>, timestamp |-> <<"t1">>,
     similarity_distance |-> d]

Pools ==
    UNION { { [i \in 1..n |-> PoolResult(i, dists[i])] :
                dists \in [1..n -> {NoneDist} \cup 0..MaxDist] } : n \in 0..MaxPool }

InitSelect ==
    /\ long_term_collection = {}
    /\ short_term_collection = {}
    /\ next_uuid = 0
    /\ call = NoCall
    /\ short_term_results \in Pools
    /\ long_term_results \in Pools
    /\ selection = NoBest
    /\ frontend = "none"
    /\ memory_manager = "ready"
    /\ req = NoReq
    /\ process = NewProcess
    /\ threads = NoThreads

SelectBestMemoryMatch ==
    /\ call = NoCall
    /\ selection' = select_best_memory_match(short_term_results, long_term_results)
    /\ call' = [NoCall EXCEPT !.op = "select_best_memory_match"]
    /\ UNCHANGED <<threads, process,
                   long_term_collection, short_term_collection, next_uuid,
                   short_term_results, long_term_results, frontend,
                   memory_manager, req>>

NextSelect == SelectBestMemoryMatch

SpecSelect == InitSelect /\ [][NextSelect]_vars

\* ------------------------------------------------------------ llm.py
IsSpace(token) == token \in {" ", "\n"}

\* python: str.strip()
Strip(text) ==
    LET kept == {i \in 1..Len(text) : ~IsSpace(text[i])}
    IN IF kept = {} THEN <<>>
       ELSE SubSeq(text, CHOOSE i \in kept : \A j \in kept : i <= j,
                         CHOOSE i \in kept : \A j \in kept : j <= i)

LowerToken(token) ==
    CASE token = "Remix" -> "remix"
      [] token = "REMIX" -> "remix"
      [] token = "New_Generation" -> "new_generation"
      [] OTHER -> token

\* python: str.lower()
Lower(text) == [i \in 1..Len(text) |-> LowerToken(text[i])]

IntentTags == {<<"remix">>, <<"new_generation">>}

\* client.chat raised.
ChatFault == <<"<raised>">>

\* What the model behind client.chat may answer to the intent question.
IntentReplies ==
    {<<"remix">>, <<"new_generation">>, <<" ", "Remix", "\n">>,
     <<"remix", " ", "it">>, <<"unsure">>}

\* What it may answer to the expansion request.
ExpandReplies == {<<"a fluffy orange cat", "\n">>}

\* detect_intent_ollama without the fallback to new_generation.
detect_intent_ollama_no_fallback(reply) ==
    IF reply = ChatFault THEN [raised |-> TRUE, value |-> NoneText]
    ELSE [raised |-> FALSE, value |-> Lower(Strip(reply))]

\* detect_intent_ollama(user_input), given what client.chat does.
detect_intent_ollama(reply) ==
    IF reply = ChatFault THEN [raised |-> TRUE, value |-> NoneText]
    ELSE LET intent == Lower(Strip(reply))
         IN [raised |-> FALSE,
             value |-> IF intent \notin IntentTags THEN <<"new_generation">>
                       ELSE intent]

\* expand_prompt(prompt), given what client.chat does.
expand_prompt(reply) ==
    IF reply = ChatFault THEN [raised |-> TRUE, value |-> NoneText]
    ELSE [raised |-> FALSE, value |-> Strip(reply)]

\* ---------------------------------------------------- the front-ends
\* python: d.get(key, default) on a result dict
DictGet(result, key, default) ==
    IF key \in DOMAIN result THEN result[key] ELSE default

\* The f-string that builds the remix prompt.
Fusion(recalled_expanded_prompt, user_prompt) ==
    <<"User wants to remix. Here's a detailed description of a past creation: '">>
    \o Str(recalled_expanded_prompt)
    \o <<"'. Now, based on the user's new request: '">>
    \o Str(user_prompt)
    \o <<"', creatively combine these elements into a single description.">>

\* The recall block of main.execute (lines 126-153) from the selection on.
\* x[:50] on a None user_prompt raises TypeError, which nothing catches.
RecallMain(user_prompt, best_match) ==
    IF best_match # NoneMatch
      THEN IF best_match.user_prompt = NoneText
             THEN [raised |-> TRUE, final |-> user_prompt, intent_type |-> <<"remix">>,
                   logged |-> {}]
             ELSE [raised |-> FALSE,
                   final |-> Fusion(DictGet(best_match, "expanded_prompt",
                                            DictGet(best_match, "user_prompt", NoneText)),
                                    user_prompt),
                   intent_type |-> <<"remix">>,
                   logged |-> {"best_recall", "constructed_remix_prompt"}]
      ELSE [raised |-> FALSE, final |-> user_prompt,
            intent_type |-> <<"new_generation">>,
            logged |-> {"no_match_treating_as_new"}]

\* The recall block of generate_creative_asset with the fusion prompt built
\* before the reference prompt is sliced.
RecallApp_fusion_first(user_prompt, best_match) ==
    IF best_match # NoneMatch
      THEN IF best_match.user_prompt = NoneText
             THEN [raised |-> FALSE,
                   final |-> Fusion(DictGet(best_match, "expanded_prompt",
                                            DictGet(best_match, "user_prompt", NoneText)),
                                    user_prompt),
                   intent_type |-> <<"new_generation">>,
                   logged |-> {"recall_error_new_generation"}]
             ELSE [raised |-> FALSE,
                   final |-> Fusion(DictGet(best_match, "expanded_prompt",
                                            DictGet(best_match, "user_prompt", NoneText)),
                                    user_prompt),
                   intent_type |-> <<"remix">>,
                   logged |-> {"constructed_remix_prompt"}]
      ELSE [raised |-> FALSE, final |-> user_prompt,
            intent_type |-> <<"new_generation">>,
            logged |-> {"no_match_fallback_new_generation"}]

\* The recall block of app.generate_creative_asset (lines 137-171) from the
\* selection on.  The TypeError of get('user_prompt', '')[:50] on a None
\* user_prompt is caught at line 168, before the fusion prompt is assigned.
RecallApp(user_prompt, best_match) ==
    IF best_match # NoneMatch
      THEN IF DictGet(best_match, "user_prompt", <<>>) = NoneText
             THEN [raised |-> FALSE, final |-> user_prompt,
                   intent_type |-> <<"new_generation">>,
                   logged |-> {"recall_error_new_generation"}]
             ELSE [raised |-> FALSE,
                   final |-> Fusion(DictGet(best_match, "expanded_prompt",
                                            DictGet(best_match, "user_prompt", NoneText)),
                                    user_prompt),
                   intent_type |-> <<"remix">>,
                   logged |-> {"constructed_remix_prompt"}]
      ELSE [raised |-> FALSE, final |-> user_prompt,
            intent_type |-> <<"new_generation">>,
            logged |-> {"no_match_fallback_new_generation"}]

\* The log lines that report a demotion of remix to new generation.
DemotionLogs ==
    {"no_match_treating_as_new", "no_match_fallback_new_generation",
     "recall_error_new_generation"}

\* A request at its start: the locals of execute / generate_creative_asset.
\* reply is what client.chat answered to the intent question; classified is what detect_intent_ollama returned ("fault" when it raised,
\* "not_called" when it was not called); handed_prompt is the argument of
\* expand_prompt once it has been called; queried tells whether a memory
\* search was made and search_faults which of the searches caught an
\* exception; status is what has been logged.
NewReq(user_prompt) ==
    [pc |-> "intent", user_prompt |-> user_prompt,
     reply |-> <<"not_called">>, classified |-> <<"not_called">>, intent_type |-> <<"new_generation">>,
     final_prompt_for_generation |-> user_prompt, handed_prompt |-> NoneText,
     expanded_prompt_by_llm |-> NoneText, image_data |-> "unset",
     queried |-> FALSE, search_faults |-> {}, saved_id |-> NoneId,
     response |-> NoneText, status |-> {}]

\* The step of MemoryManager.__init__ that raises, if any: the embedding
\* function (43-52), the long-term collection (54-65), the short-term
\* collection (67-78).
InitFaults == {"none", "embedding_provider", "long_term", "short_term"}

\* A constructor that logs a short-term failure and goes on.
MemoryManagerInit_short_term_optional(fault) ==
    [raised |-> fault \in {"embedding_provider", "long_term"},
     logged |-> IF fault = "none" THEN {"manager_initialized"}
                ELSE {"error_initializing_" \o fault}]

\* MemoryManager.__init__: each of its three try blocks re-raises, so the
\* first failing step ends the construction and there is no instance.
MemoryManagerInit(fault) ==
    [raised |-> fault # "none",
     logged |-> IF fault = "none" THEN {"manager_initialized"}
                ELSE {"error_initializing_" \o fault}]

\* The call record of a construction.
InitCall(fault, out) ==
    [NoCall EXCEPT !.op = "__init__", !.raised = out.raised,
                   !.init_fault = fault, !.logged = out.logged]

HasManager == memory_manager = "ready"

InitOrch ==
    /\ long_term_collection = {}
    /\ short_term_collection = {}
    /\ next_uuid = 0
    /\ call = NoCall
    /\ short_term_results = <<>>
    /\ long_term_results = <<>>
    /\ selection = NoBest
    /\ frontend \in {"main", "app"}
    /\ memory_manager = "unset"
    /\ req = NoReq
    /\ process = NewProcess
    /\ threads = NoThreads

\* main.config (lines 74-79) and app.py's session start (lines 76-83):
\* MemoryManager(...) is constructed, or raises and leaves None.  main tries
\* again on every config call while it is None; app tries once per session.
Config ==
    /\ req.pc = "idle"
    /\ \/ frontend = "main" /\ memory_manager \in {"unset", "failed"}
       \/ frontend = "app" /\ memory_manager = "unset"
    /\ \E fault \in InitFaults :
         LET out == MemoryManagerInit(fault)
         IN /\ memory_manager' = IF out.raised THEN "failed" ELSE "ready"
            /\ call' = InitCall(fault, out)
            /\ process' = [process EXCEPT !.init_failed = @ \/ out.raised]
    /\ UNCHANGED <<threads, long_term_collection, short_term_collection, next_uuid,
                   short_term_results, long_term_results, selection, frontend, req>>

\* A request arrives: execute(model) / handle_generate_click with a prompt.
Begin ==
    /\ req.pc = "idle"
    /\ next_uuid < MaxSaves
    /\ frontend = "app" => memory_manager # "unset"
    /\ \E user_prompt \in UserPrompts : req' = NewReq(user_prompt)
    /\ selection' = NoBest
    /\ call' = NoCall
    /\ UNCHANGED <<threads, process,
                   long_term_collection, short_term_collection, next_uuid,
                   short_term_results, long_term_results, frontend, memory_manager>>

\* Step 0: detect intent (main 110-120, app 120-131).
DetectIntent ==
    /\ req.pc = "intent"
    /\ IF ~HasManager
         THEN req' = [req EXCEPT !.pc = "expand",
                        !.status = @ \cup (IF frontend = "main"
                                             THEN {"manager_not_initialized"} ELSE {})]
         ELSE \E reply \in IntentReplies \cup {ChatFault} :
                LET out == detect_intent_ollama(reply)
                    intent_type == IF out.raised THEN <<"new_generation">> ELSE out.value
                IN req' = [req EXCEPT
                     !.reply = reply,
                     !.classified = IF out.raised THEN <<"fault">> ELSE out.value,
                     !.intent_type = intent_type,
                     !.status = @ \cup (IF out.raised THEN {"error_detecting_intent"}
                                        ELSE {"detected_intent"}),
                     !.pc = IF intent_type = <<"remix">> /\ HasManager
                              THEN "recall" ELSE "expand"]
    /\ UNCHANGED <<threads, process,
                   long_term_collection, short_term_collection, next_uuid, call,
                   short_term_results, long_term_results, selection, frontend,
                   memory_manager>>

\* Remix: search both tiers with n_results=1, select, build the prompt
\* (main 126-153, app 137-171).
Recall ==
    /\ req.pc = "recall"
    /\ \E short_backend \in QueryOutcomes(short_term_collection, 1),
          long_backend \in QueryOutcomes(long_term_collection, 1) :
         LET short_search == search_short_term_memory(short_backend)
             long_search == search_long_term_memory(long_backend)
             short_results == short_search.value
             long_results == long_search.value
             best == select_best_memory_match(short_results, long_results)
             out == IF frontend = "main"
                      THEN RecallMain(req.user_prompt, best.best_match)
                      ELSE RecallApp(req.user_prompt, best.best_match)
         IN /\ short_term_results' = short_results
            /\ long_term_results' = long_results
            /\ selection' = best
            /\ req' = [req EXCEPT !.queried = TRUE,
                         !.search_faults =
                            (IF "error_searching_short_term" \in short_search.logged
                               THEN {"short_term"} ELSE {})
                            \cup (IF "error_searching_long_term" \in long_search.logged
                                    THEN {"long_term"} ELSE {}),
                         !.final_prompt_for_generation = out.final,
                         !.intent_type = out.intent_type,
                         !.status = @ \cup out.logged,
                         !.pc = IF out.raised THEN "raised" ELSE "expand"]
    /\ UNCHANGED <<threads, process,
                   long_term_collection, short_term_collection, next_uuid, call,
                   frontend, memory_manager>>

\* Step 1: expand the prompt (main 155-161, app 177-186).  On a failure
\* main goes on with the unexpanded prompt and app gives the request up.
\* The two result lists and the selected match are not read again once the
\* prompt is built: the model lets go of them here.
Expand ==
    /\ req.pc = "expand"
    /\ \E reply \in ExpandReplies \cup {ChatFault} :
         LET out == expand_prompt(reply)
         IN req' = [req EXCEPT
              !.handed_prompt = req.final_prompt_for_generation,
              !.expanded_prompt_by_llm =
                 IF ~out.raised THEN out.value
                 ELSE IF frontend = "main" THEN req.final_prompt_for_generation
                 ELSE NoneText,
              !.status = @ \cup (IF out.raised THEN {"error_expanding_prompt"}
                                 ELSE {"expanded_prompt"}),
              !.pc = IF out.raised /\ frontend = "app" THEN "done" ELSE "generate"]
    /\ short_term_results' = <<>>
    /\ long_term_results' = <<>>
    /\ selection' = NoBest
    /\ UNCHANGED <<threads, process,
                   long_term_collection, short_term_collection, next_uuid, call,
                   frontend, memory_manager>>

\* Step 2: bring_idea_to_life returns bytes, returns something else, or
\* raises (main 163-168, app 189-199).
Generate ==
    /\ req.pc = "generate"
    /\ \E outcome \in {"bytes", "none", "fault"} :
         req' = [req EXCEPT
           !.image_data = IF outcome = "fault" THEN "none" ELSE outcome,
           !.status = @ \cup (IF outcome = "fault" THEN {"error_generating_image"} ELSE {}),
           !.pc = IF outcome = "fault" /\ frontend = "app" THEN "done" ELSE "remember"]
    /\ UNCHANGED <<threads, process,
                   long_term_collection, short_term_collection, next_uuid, call,
                   short_term_results, long_term_results, selection, frontend,
                   memory_manager>>

Echo(user_prompt) == <<"Echo: ">> \o user_prompt

\* A step 3 that takes whatever the generation left for an image.
ImageUsable_unchecked(image_data) == TRUE

\* `if image_data and isinstance(image_data, bytes)` (main 173, app 202).
ImageUsable(image_data) == image_data = "bytes"

\* Step 3 without image bytes.  main line 194 assigns to response.message
\* before response is bound (line 198): UnboundLocalError.
RememberNoImage ==
    /\ req.pc = "remember"
    /\ ~ImageUsable(req.image_data)
    /\ req' = IF frontend = "main"
                THEN [req EXCEPT !.pc = "raised"]
                ELSE [req EXCEPT !.pc = "done",
                                 !.status = @ \cup {"image_generation_failed"}]
    /\ UNCHANGED <<threads, process,
                   long_term_collection, short_term_collection, next_uuid, call,
                   short_term_results, long_term_results, selection, frontend,
                   memory_manager>>

\* Step 3 with image bytes whose file cannot be written, or with no manager
\* to save to: main's memory_manager.save_creation on None raises
\* AttributeError into the same except clause; app skips the save.
RememberNoSave ==
    /\ req.pc = "remember"
    /\ ImageUsable(req.image_data)
    /\ \E file_written \in BOOLEAN :
         /\ ~file_written \/ ~HasManager
         /\ req' = [req EXCEPT
              !.pc = "done",
              !.response = IF frontend = "main" THEN Echo(req.user_prompt) ELSE @,
              !.status = @ \cup (IF file_written /\ frontend = "app"
                                   THEN {"image_saved", "manager_not_available"}
                                   ELSE IF file_written
                                     THEN {"image_saved", "failed_to_save_image"}
                                     ELSE {"failed_to_save_image"})]
    /\ UNCHANGED <<threads, process,
                   long_term_collection, short_term_collection, next_uuid, call,
                   short_term_results, long_term_results, selection, frontend,
                   memory_manager>>

\* Step 3 with image bytes written and a manager: save_creation
\* (main 173-189, app 202-242).
RememberSave ==
    /\ req.pc = "remember"
    /\ ImageUsable(req.image_data)
    /\ HasManager
    /\ \E long_fault \in BOOLEAN, short_fault \in BOOLEAN :
         LET creation_id == next_uuid + 1
             out == save_creation(long_term_collection, short_term_collection,
                                  creation_id, req.user_prompt,
                                  req.expanded_prompt_by_llm, Now(creation_id),
                                  long_fault, short_fault)
         IN /\ next_uuid' = creation_id
            /\ long_term_collection' = out.long
            /\ short_term_collection' = out.short
            /\ call' = SaveCall(creation_id, long_fault, short_fault, out)
            /\ req' = [req EXCEPT
                 !.pc = "done", !.saved_id = out.ret,
                 !.response = IF frontend = "main" THEN Echo(req.user_prompt) ELSE @,
                 !.status = @ \cup {"image_saved"} \cup
                            (IF out.ret # NoneId THEN {"saved_to_memory"}
                             ELSE {"failed_to_save_to_memory"})]
            /\ process' = Added(out.long, out.short)
    /\ UNCHANGED <<threads, short_term_results, long_term_results, selection,
                   frontend, memory_manager>>

\* The request is over (returned, or ended by an uncaught exception).
Finish ==
    /\ req.pc \in {"done", "raised"}
    /\ req' = NoReq
    /\ call' = NoCall
    /\ short_term_results' = <<>>
    /\ long_term_results' = <<>>
    /\ selection' = NoBest
    /\ UNCHANGED <<threads, process,
                   long_term_collection, short_term_collection, next_uuid,
                   frontend, memory_manager>>

NextOrch ==
    \/ Config
    \/ Begin
    \/ DetectIntent
    \/ Recall
    \/ Expand
    \/ Generate
    \/ RememberNoImage
    \/ RememberNoSave
    \/ RememberSave
    \/ Finish

SpecOrch == InitOrch /\ [][NextOrch]_vars

\* ------------------------------------------------- the process restarts
\* The long-term collection a new MemoryManager opens:
\* PersistentClient(path=persist_directory).get_or_create_collection finds
\* the rows stored under the path.
LongTermAtStart(stored) == stored

\* A short-term tier kept on disk like the long-term one.
ShortTermAtStart_persistent(previous) == previous

\* The short-term collection a new MemoryManager opens: chromadb.Client() is
\* in memory, and the memory of the previous process is gone.
ShortTermAtStart(previous) == {}

\* The process ends, at any point of a request, and a new one starts on the
\* same persist_directory: module state is as at import, the tiers are as
\* the next MemoryManager(...) will open them.
Restart ==
    /\ long_term_collection' = LongTermAtStart(long_term_collection)
    /\ short_term_collection' = ShortTermAtStart(short_term_collection)
    /\ memory_manager' = "unset"
    /\ req' = NoReq
    /\ call' = NoCall
    /\ short_term_results' = <<>>
    /\ long_term_results' = <<>>
    /\ selection' = NoBest
    /\ process' = NewProcess
    /\ UNCHANGED <<threads, next_uuid, frontend>>

NextLife ==
    \/ NextOrch
    \/ Restart

SpecLife == InitOrch /\ [][NextLife]_vars

\* -------------------------------------- concurrent callers of one manager
\* save_creation takes no lock, so callers on several threads interleave
\* between its statements.  Each collection.add and collection.query is one
\* step: the backend serves a call as a whole.
Threads == 1..MaxThreads

IdleThread ==
    [pc |-> "idle", creation_id |-> NoneId, user_prompt |-> NoneText,
     expanded_prompt |-> NoneText, ret |-> NoneId]

\* A save_creation that adds to the short-term tier first.
NextStep_short_first(pc, raised) ==
    CASE pc = "start" -> "short_add"
      [] pc = "short_add" -> "long_add"
      [] pc = "long_add" -> IF raised THEN "return_none" ELSE "return_id"

\* The control flow of save_creation: the statement that follows pc, given
\* whether the add at pc raised.  The long-term add comes first and its
\* except clause returns None (94-104); the short-term add follows and its
\* except clause only logs (106-115); line 117 returns the id.
NextStep(pc, raised) ==
    CASE pc = "start" -> "long_add"
      [] pc = "long_add" -> IF raised THEN "return_none" ELSE "short_add"
      [] pc = "short_add" -> "return_id"

\* The thread after the statement at its pc, which raised or not.
Stepped(thread, raised) ==
    LET step == NextStep(thread.pc, raised)
    IN IF step = "return_id" THEN [IdleThread EXCEPT !.ret = thread.creation_id]
       ELSE IF step = "return_none" THEN IdleThread
       ELSE [thread EXCEPT !.pc = step]

InitConc ==
    /\ long_term_collection = {}
    /\ short_term_collection = {}
    /\ next_uuid = 0
    /\ call = NoCall
    /\ short_term_results = <<>>
    /\ long_term_results = <<>>
    /\ selection = NoBest
    /\ frontend = "none"
    /\ memory_manager = "ready"
    /\ req = NoReq
    /\ process = NewProcess
    /\ threads = [t \in Threads |-> IdleThread]

\* Lines 87-92: the id and the metadata of the new creation.
CallSaveCreation(t) ==
    /\ threads[t].pc = "idle"
    /\ next_uuid < MaxSaves
    /\ next_uuid' = next_uuid + 1
    /\ \E user_prompt \in UserPrompts, expanded_prompt \in ExpandedPrompts :
         threads' = [threads EXCEPT ![t] =
            [pc |-> NextStep("start", FALSE), creation_id |-> next_uuid + 1,
             user_prompt |-> user_prompt, expanded_prompt |-> expanded_prompt,
             ret |-> NoneId]]
    /\ UNCHANGED <<long_term_collection, short_term_collection, call,
                   short_term_results, long_term_results, selection, frontend,
                   memory_manager, req, process>>

\* The tier after thread t's add to it, which raised or not.
AddBy(t, coll, raised) ==
    IF raised THEN coll
    ELSE CollectionAdd(coll, threads[t].creation_id, threads[t].expanded_prompt,
                       [user_prompt |-> threads[t].user_prompt,
                        timestamp |-> Now(threads[t].creation_id)])

\* Lines 95-104: the long-term add of thread t.
AddLongTerm(t) ==
    /\ threads[t].pc = "long_add"
    /\ \E long_fault \in BOOLEAN :
         LET long2 == AddBy(t, long_term_collection, long_fault)
         IN /\ long_term_collection' = long2
            /\ process' = Added(long2, short_term_collection)
            /\ threads' = [threads EXCEPT ![t] = Stepped(@, long_fault)]
    /\ UNCHANGED <<short_term_collection, next_uuid, call, short_term_results,
                   long_term_results, selection, frontend, memory_manager, req>>

\* Lines 107-115: the short-term add of thread t.
AddShortTerm(t) ==
    /\ threads[t].pc = "short_add"
    /\ \E short_fault \in BOOLEAN :
         LET short2 == AddBy(t, short_term_collection, short_fault)
         IN /\ short_term_collection' = short2
            /\ process' = Added(long_term_collection, short2)
            /\ threads' = [threads EXCEPT ![t] = Stepped(@, short_fault)]
    /\ UNCHANGED <<long_term_collection, next_uuid, call, short_term_results,
                   long_term_results, selection, frontend, memory_manager, req>>

\* A search by thread t, between the statements of the other threads, with
\* n_results=1 as the front-ends call it.  call holds what it returned until
\* the thread has taken it.
SearchShortTermBy(t) ==
    /\ threads[t].pc = "idle"
    /\ call = NoCall
    /\ \E backend \in QueryOutcomes(short_term_collection, 1) :
         call' = SearchCall("search_short_term_memory", short_term_collection,
                            backend, search_short_term_memory(backend))
    /\ threads' = [threads EXCEPT ![t].pc = "searched"]
    /\ UNCHANGED <<process,
                   long_term_collection, short_term_collection, next_uuid,
                   short_term_results, long_term_results, selection, frontend,
                   memory_manager, req>>

SearchLongTermBy(t) ==
    /\ threads[t].pc = "idle"
    /\ call = NoCall
    /\ \E backend \in QueryOutcomes(long_term_collection, 1) :
         call' = SearchCall("search_long_term_memory", long_term_collection,
                            backend, search_long_term_memory(backend))
    /\ threads' = [threads EXCEPT ![t].pc = "searched"]
    /\ UNCHANGED <<process,
                   long_term_collection, short_term_collection, next_uuid,
                   short_term_results, long_term_results, selection, frontend,
                   memory_manager, req>>

SearchReturns(t) ==
    /\ threads[t].pc = "searched"
    /\ threads' = [threads EXCEPT ![t].pc = "idle"]
    /\ call' = NoCall
    /\ UNCHANGED <<long_term_collection, short_term_collection, next_uuid,
                   short_term_results, long_term_results, selection, frontend,
                   memory_manager, req, process>>

NextConc ==
    \E t \in Threads :
        \/ SearchReturns(t)
        \/ CallSaveCreation(t)
        \/ AddLongTerm(t)
        \/ AddShortTerm(t)
        \/ SearchShortTermBy(t)
        \/ SearchLongTermBy(t)

SpecConc == InitConc /\ [][NextConc]_vars

\* ================================================================ claims
IsSave == call.op = "save_creation"
IsSearch == call.op \in {"search_short_term_memory", "search_long_term_memory"}
InTier(coll, id) == \E row \in coll : row.id = id

\* C1: a save_creation whose long-term add fails returns None, issues no
\* short-term add and leaves the short-term tier as it was.
C1_LongFailureAborts ==
    [][(call'.op = "save_creation" /\ call'.long_fault)
         => /\ call'.ret = NoneId
            /\ ~call'.raised
            /\ call'.short_adds = 0
            /\ short_term_collection' = short_term_collection]_vars

C1_Witness ==
    /\ IsSave /\ call.long_fault /\ call.ret = NoneId
    /\ short_term_collection # {}

\* C2: a save_creation whose long-term add succeeds and whose short-term add
\* fails logs the partial failure and returns the generated id, without
\* raising.
C2_PartialFailureReturnsId ==
    (IsSave /\ ~call.long_fault /\ call.short_fault)
      => /\ call.ret = call.creation_id
         /\ call.ret # NoneId
         /\ ~call.raised
         /\ "error_short_term_save" \in call.logged

C2_Witness ==
    /\ IsSave /\ ~call.long_fault /\ call.short_fault
    /\ call.ret = call.creation_id /\ call.ret # NoneId

\* C3, as claimed: every save_creation that returns an id has, when it
\* returns, a record with that id in the long-term tier and in the short-term
\* tier.
C3_SavedInBothTiers ==
    (IsSave /\ call.ret # NoneId)
      => /\ InTier(long_term_collection, call.ret)
         /\ InTier(short_term_collection, call.ret)

\* C3, amended: every save_creation that returns an id has, when it returns,
\* a record with that id in the long-term tier; the short-term tier holds it
\* too exactly when the short-term add did not fail, and a failed short-term
\* add is logged.
C3_SavedInLongAndShortUnlessFailed ==
    (IsSave /\ call.ret # NoneId)
      => /\ InTier(long_term_collection, call.ret)
         /\ InTier(short_term_collection, call.ret) <=> ~call.short_fault
         /\ call.short_fault => "error_short_term_save" \in call.logged

C3_Witness ==
    /\ IsSave /\ call.ret # NoneId /\ call.short_fault
    /\ InTier(long_term_collection, call.ret)
    /\ ~InTier(short_term_collection, call.ret)

\* C7: a search never raises, and when the tier's query or the formatting of
\* its results faults the search returns the empty list.
C7_SearchNeverRaises ==
    IsSearch
      => /\ ~call.raised
         /\ (call.query_fault \/ call.format_fault) => call.results = <<>>

C7_Witness ==
    /\ IsSearch /\ call.nonempty /\ call.query_fault
    /\ ~call.raised /\ call.results = <<>>

IsSelect == call.op = "select_best_memory_match"

\* The candidates of the caller's two pools, in iteration order.
Pool == Candidates(short_term_results, long_term_results)
DefinedAt == {k \in 1..Len(Pool) : Pool[k].result.similarity_distance # NoneDist}
\* The places of the pool that hold the object the selection returned.
SelectedAt ==
    {k \in 1..Len(Pool) : /\ Pool[k].source = selection.source
                          /\ Pool[k].index = selection.index}

\* C4: when some candidate of the two pools has a distance, the selection
\* returns a candidate of the pools whose distance is the least of all the
\* distances there are, and the returned score is that least distance.
C4_SelectsGlobalMinimum ==
    (IsSelect /\ DefinedAt # {})
      => /\ \E k \in DefinedAt : /\ SelectedAt = {k}
                                 /\ Pool[k].result = selection.best_match
         /\ selection.best_match.similarity_distance = selection.best_score
         /\ \A k \in DefinedAt :
              selection.best_score <= Pool[k].result.similarity_distance

C4_Witness ==
    /\ IsSelect
    /\ Len(short_term_results) = 2 /\ Len(long_term_results) = 2
    /\ short_term_results[1].similarity_distance = 1
    /\ long_term_results[1].similarity_distance = 2
    /\ long_term_results[2].similarity_distance = 0
    /\ selection.source = "long-term" /\ selection.index = 2
    /\ selection.best_score = 0

\* C5: ties go to the candidate seen first in the order short-term then
\* long-term: no candidate before the returned one has the returned
\* distance, so on a tie between the pools the short-term one is returned.
C5_FirstSeenWinsTies ==
    (IsSelect /\ selection.best_match # NoneMatch)
      => /\ \A k \in SelectedAt : \A j \in DefinedAt :
              Pool[j].result.similarity_distance = selection.best_score => k <= j
         /\ (\E j \in DefinedAt :
               /\ Pool[j].source = "short-term"
               /\ Pool[j].result.similarity_distance = selection.best_score)
              => selection.source = "short-term"

C5_Witness ==
    /\ IsSelect
    /\ Len(short_term_results) = 2 /\ Len(long_term_results) = 1
    /\ short_term_results[1].similarity_distance = 1
    /\ short_term_results[2].similarity_distance = 1
    /\ long_term_results[1].similarity_distance = 1
    /\ selection.source = "short-term" /\ selection.index = 1

\* C6: with no candidate that has a distance (both pools empty included) the
\* selection returns (None, None), and a candidate without a distance is
\* never what it returns.
C6_NoneWithoutUsableDistance ==
    IsSelect
      => /\ DefinedAt = {}
           => (selection.best_match = NoneMatch /\ selection.best_score = NoneDist)
         /\ selection.best_match # NoneMatch
           => /\ selection.best_match.similarity_distance # NoneDist
              /\ SelectedAt \subseteq DefinedAt

C6_Witness ==
    /\ IsSelect
    /\ Len(short_term_results) = 1 /\ Len(long_term_results) = 2
    /\ DefinedAt = {}
    /\ selection.best_match = NoneMatch /\ selection.best_score = NoneDist

\* A remix request that was demoted: the classifier said remix and the
\* request goes on as new_generation.
Demoted ==
    /\ req.pc \notin {"idle", "intent", "recall"}
    /\ req.classified = <<"remix">>
    /\ req.intent_type = <<"new_generation">>

\* C8: in both front-ends a remix request demoted to new_generation (no
\* match selected, or the recall failed) hands the user's prompt, unchanged,
\* to the prompt expansion, and the demotion is logged.
C8_DemotionKeepsPrompt ==
    Demoted
      => /\ req.final_prompt_for_generation = req.user_prompt
         /\ req.pc # "expand" => req.handed_prompt = req.user_prompt
         /\ req.status \cap DemotionLogs # {}

C8_Witness ==
    /\ Demoted /\ frontend = "app" /\ req.pc = "generate"
    /\ req.queried
    /\ "recall_error_new_generation" \in req.status
    /\ req.handed_prompt = req.user_prompt

\* A remix prompt was built from the selected match.
Fused ==
    /\ req.pc # "idle"
    /\ selection.best_match # NoneMatch
    /\ "constructed_remix_prompt" \in req.status

\* C9, as claimed: the remix prompt built from a match embeds the match's
\* expanded_prompt and the new request, and embeds the match's user_prompt
\* in its place when the expanded_prompt is absent (null included).
C9_FusionEmbedsRecalledPrompt ==
    Fused
      => req.final_prompt_for_generation =
           Fusion(IF selection.best_match.expanded_prompt # NoneText
                    THEN selection.best_match.expanded_prompt
                    ELSE selection.best_match.user_prompt,
                  req.user_prompt)

\* C10: the intent acted on is new_generation or remix and nothing else; a
\* failed classifier and any answer that is not one of the two tags go on
\* as new_generation; memory is searched only when the answer was remix.
C10_IntentIsOneOfTwoTags ==
    req.pc \notin {"idle", "intent"}
      => /\ req.intent_type \in IntentTags
         /\ (req.reply = ChatFault \/ Lower(Strip(req.reply)) \notin IntentTags)
              => (req.intent_type = <<"new_generation">> /\ ~req.queried)
         /\ req.queried
              => (req.reply # ChatFault /\ Lower(Strip(req.reply)) = <<"remix">>)

C10_Witness ==
    /\ req.pc = "generate"
    /\ req.reply = <<"remix", " ", "it">>
    /\ req.intent_type = <<"new_generation">>
    /\ ~req.queried
    /\ long_term_collection # {}

\* C11: when the raw results of a query hold a hit without an id, a document
\* text or a metadata dict, the search drops that hit alone: it returns the
\* well-formed hits of the query, no returned result has a null id or a null
\* expanded_prompt, and it raises nothing.
C11_MalformedHitAloneDropped ==
    (IsSearch /\ ~call.query_fault) =>
        /\ ~call.raised
        /\ [i \in 1..Len(call.results) |-> call.results[i].id] = call.wellformed
        /\ \A i \in 1..Len(call.results) :
              /\ call.results[i].id # NoneId
              /\ call.results[i].expanded_prompt # NoneText

\* Every row of coll is in coll2, and is the only row of coll2 with its id.
Keeps(coll, coll2) ==
    \A row \in coll : /\ row \in coll2
                       /\ \A other \in coll2 : other.id = row.id => other = row

\* C12: creation records are write-once: no step of a request (a save, a
\* search, a selection or any other) removes a record from a tier or changes
\* its id, user_prompt, expanded_prompt or timestamp; tiers only grow.
C12_RecordsAreWriteOnce ==
    [][/\ Keeps(long_term_collection, long_term_collection')
       /\ Keeps(short_term_collection, short_term_collection')]_vars

C12_Witness ==
    /\ Cardinality(long_term_collection) = 2
    /\ Cardinality(short_term_collection) = 2
    /\ req.pc = "done" /\ req.queried
    /\ "constructed_remix_prompt" \in req.status
    /\ req.saved_id = 2

\* The one record that both tiers hold after a first save that succeeded in
\* both, seen by a request that has just searched and selected.
RecalledOnFirstRecord ==
    /\ req.pc \in {"expand", "raised"}
    /\ req.image_data = "unset"
    /\ req.queried
    /\ Cardinality(long_term_collection) = 1
    /\ short_term_collection = long_term_collection

\* C13: after a save_creation on empty memory that succeeded in both tiers
\* and returned id A, a short-term and a long-term search with n_results=1
\* that the backend answers each yield exactly one result, with id A, and
\* select_best_memory_match on them returns the record with id A and the
\* smaller of the two distances as score.
C13_SavedRecordIsRecalled ==
    (RecalledOnFirstRecord /\ req.search_faults = {}) =>
        LET A == (CHOOSE row \in long_term_collection : TRUE).id
        IN /\ Len(short_term_results) = 1 /\ short_term_results[1].id = A
           /\ Len(long_term_results) = 1 /\ long_term_results[1].id = A
           /\ selection.best_match # NoneMatch
           /\ selection.best_match.id = A
           /\ selection.best_score = Min(short_term_results[1].similarity_distance,
                                         long_term_results[1].similarity_distance)

C13_Witness ==
    /\ RecalledOnFirstRecord /\ req.search_faults = {}
    /\ short_term_results # <<>> /\ long_term_results # <<>>
    /\ long_term_results[1].similarity_distance < short_term_results[1].similarity_distance
    /\ selection.source = "long-term"
    /\ selection.best_match.id = 1

\* C14: long-term memory survives a restart and short-term memory does not:
\* no step, a restart included, loses or changes a long-term record, and
\* after every step the short-term tier holds only records that the running
\* process has written since it started.
C14_LongTermSurvivesRestart ==
    [][/\ Keeps(long_term_collection, long_term_collection')
       /\ {row.id : row \in short_term_collection'} \subseteq process'.added_short]_vars

\* After a restart and a new manager: a record of the previous process is in
\* the long-term tier only, and the record saved since is in both.
C14_Witness ==
    /\ memory_manager = "ready"
    /\ \E row \in long_term_collection :
         /\ row.id \notin process.added_long
         /\ ~InTier(short_term_collection, row.id)
    /\ \E row \in short_term_collection :
         row.id \in process.added_short /\ row \in long_term_collection

\* C15: in both front-ends save_creation is called, and a tier gains a
\* record, only in a request whose image generation returned bytes and whose
\* image file has been written; a request whose generation raised or
\* returned no bytes adds nothing to either tier.
C15_SaveOnlyAfterImage ==
    [][(\/ long_term_collection' # long_term_collection
        \/ short_term_collection' # short_term_collection
        \/ next_uuid' # next_uuid
        \/ call'.op = "save_creation" /\ call # call')
          => /\ req.pc = "remember"
             /\ req.image_data = "bytes"
             /\ "error_generating_image" \notin req.status
             /\ "image_saved" \in req'.status]_vars

C15_Witness ==
    /\ req.pc = "done" /\ req.image_data = "bytes"
    /\ IsSave /\ call.ret = req.saved_id /\ req.saved_id # NoneId
    /\ InTier(long_term_collection, req.saved_id)
    /\ {"image_saved", "saved_to_memory"} \subseteq req.status

\* The request in progress has searched no memory and works on the raw
\* user prompt as a new generation.
HandledWithoutMemory ==
    /\ req.classified = <<"not_called">>
    /\ req.intent_type = <<"new_generation">>
    /\ ~req.queried
    /\ req.final_prompt_for_generation = req.user_prompt
    /\ req.handed_prompt \in {NoneText, req.user_prompt}
    /\ req.saved_id = NoneId

\* A construction that meets a failing step raises and leaves no manager.
FailedConstructionRaises ==
    (call.op = "__init__" /\ call.init_fault # "none")
        => call.raised /\ memory_manager = "failed"

\* C16, as claimed: a construction that fails raises and leaves no manager,
\* and every request after a failed construction is handled as a new
\* generation on the raw user prompt, with no memory search.
C16_EveryLaterRequestWithoutMemory ==
    /\ FailedConstructionRaises
    /\ (process.init_failed /\ req.pc # "idle") => HandledWithoutMemory

\* C16, amended: a construction that fails raises and leaves no manager;
\* every request handled while there is no manager is handled as a new
\* generation on the raw user prompt, with no memory search.  In app.py that
\* is every later request of the session; main.py constructs again on a
\* later config call.
C16_RequestsWithoutManager ==
    /\ FailedConstructionRaises
    /\ (memory_manager # "ready" /\ req.pc # "idle") => HandledWithoutMemory
    /\ (frontend = "app" /\ process.init_failed) => memory_manager = "failed"

C16_Witness ==
    /\ memory_manager = "failed" /\ process.init_failed
    /\ req.pc = "done" /\ req.image_data = "bytes"
    /\ req.handed_prompt = req.user_prompt
    /\ HandledWithoutMemory

\* C17: no retries: a save_creation call issues at most one add to the
\* long-term tier and at most one to the short-term tier, and a search call
\* issues at most one query, whether those backend calls raise or not.
C17_NoRetries ==
    /\ IsSave => /\ call.long_adds <= 1
                 /\ call.short_adds <= 1
                 /\ call.long_fault => call.short_adds = 0
    /\ IsSearch => call.queries <= 1

C17_Witness ==
    /\ IsSave /\ call.long_fault
    /\ call.long_adds = 1 /\ call.short_adds = 0
    /\ ~InTier(long_term_collection, call.creation_id)

\* C18: in every state of a process whose threads interleave save_creation
\* and search calls, states in the middle of a save included, every record
\* of the short-term tier is in the long-term tier too, with the same id,
\* user_prompt, expanded_prompt and timestamp.
C18_ShortTermWithinLongTerm ==
    \A row \in short_term_collection : row \in long_term_collection

\* A save between its two adds, whose long-term record a search by another
\* thread has returned, next to a record that is in both tiers.
C18_Witness ==
    /\ call.op = "search_long_term_memory"
    /\ short_term_collection # {}
    /\ \E t \in Threads :
         /\ threads[t].pc = "short_add"
         /\ InTier(long_term_collection, threads[t].creation_id)
         /\ ~InTier(short_term_collection, threads[t].creation_id)
         /\ call.results # <<>>
         /\ call.results[1].id = threads[t].creation_id

\* C19: main.execute completes normally whatever its collaborators do (the
\* manager present or not; the classifier, the searches, the expansion, the
\* generation and the save each succeeding or failing): no path ends in an
\* uncaught exception, and a finished execute has set the response message
\* to the echo of the user prompt.
C19_ExecuteAlwaysEchoes ==
    frontend = "main" =>
        /\ req.pc # "raised"
        /\ req.pc = "done" => req.response = Echo(req.user_prompt)

====
